---- MODULE Spec2Model ----
(***************************************************************************)
(* Model of the Unicode transcoding core of NppCppMSVS:                    *)
(*   Framework/UnicodeFormatTranslation.h  (utf8byte classifier and the    *)
(*       six converters utf16to32, utf32to16, utf8to32, utf32to8,          *)
(*       utf8to16, utf16to8)                                               *)
(*   Framework/UtilityFrameworkMIT.h       (fromWide / toWide, the chunked *)
(*       adapters around WideCharToMultiByte / MultiByteToWideChar)        *)
(*                                                                         *)
(* Bytes are modelled as 0..255, 16-bit units as 0..65535 (wchar_t of the  *)
(* Windows build), 32-bit values as 0..2^32-1.  Loop indices are 0-based   *)
(* as in the source; s[i] of the source is s[i + 1] here.                  *)
(***************************************************************************)
EXTENDS Integers, Sequences, FiniteSets, TLC

VARIABLES
    charSigned,   \* build choice: is plain char signed (MSVC default) or unsigned (/J)
    errs,         \* InvalidUnicode policy of the running calls
    fn,           \* converter whose loop is running
    src,          \* its input view
    i,            \* its loop index (0-based)
    dst,          \* its output string under construction
    orig,         \* input of the first call of the run
    first,        \* name of the first converter called
    second,       \* converter called on the first one's result
    stage,        \* 1: first call, 2: call on the first call's result
    lastAdv,      \* input units consumed by the latest loop iteration
    lastOut,      \* output units appended by the latest loop iteration
    adapter,      \* "fromWide" / "toWide" / "none": chunked adapter that is running
    codepage,     \* code page argument of the adapter
    buf,          \* the adapter's input string s
    safeSize,     \* per-call limit of the external codec
    workingPoint, \* the adapter's working offset
    r,            \* the adapter's result string
    segs,         \* external codec calls made so far: <<offset, length>>
    apc           \* adapter position: "loop", "done", "undefined"

vars == << charSigned, errs, fn, src, i, dst, orig, first, second, stage, lastAdv, lastOut,
           adapter, codepage, buf, safeSize, workingPoint, r, segs, apc >>

convVars == << charSigned, errs, fn, src, i, dst, orig, first, second, stage, lastAdv, lastOut >>
adapterVars == << adapter, codepage, buf, safeSize, workingPoint, r, segs, apc >>

----------------------------------------------------------------------------
(* Bounds of the model *)

MaxUnits == 3      \* longest 16-bit / 32-bit input of a converter run
MaxPieces == 2     \* number of byte pieces concatenated into an 8-bit input
MaxBuf == 6        \* longest input string of a chunked adapter run
MaxSafeSize == 4   \* largest per-call limit (safeSize) of a chunked adapter run

----------------------------------------------------------------------------
(* Integer arithmetic of the C++ types *)

RECURSIVE BitAnd(_, _)
BitAnd(a, b) ==
    IF a = 0 \/ b = 0 THEN 0
    ELSE (a % 2) * (b % 2) + 2 * BitAnd(a \div 2, b \div 2)

RECURSIVE BitOr(_, _)
BitOr(a, b) ==
    IF a = 0 THEN b
    ELSE IF b = 0 THEN a
    ELSE (IF a % 2 = 1 \/ b % 2 = 1 THEN 1 ELSE 0) + 2 * BitOr(a \div 2, b \div 2)

\* static_cast<char>(x): the low eight bits, kept as the byte 0..255
Char(x) == x % 256

\* static_cast<wchar_t>(x): wchar_t is an unsigned 16-bit type in the Windows build
Wchar(x) == x % 65536

\* conversion to char32_t (32 bits): every value the converters compute from
\* bytes and 16-bit units lies in 0 .. 2^22, so the conversion never wraps
Char32(x) == x

\* value of a plain char holding byte b once promoted to int
CharValue(b) == IF charSigned /\ b >= 128 THEN b - 256 ELSE b

----------------------------------------------------------------------------
(* namespace utf8byte *)

isASCII(c) == BitAnd(c, \h80) = \h00

isTrail(c) == BitAnd(c, \hC0) = \h80

isLead2(c) == BitAnd(c, \hE0) = \hC0 /\ BitAnd(c, \hFE) # \hC0

isLead3(c) == BitAnd(c, \hF0) = \hE0

isLead4(c) == BitAnd(c, \hFC) = \hF0 \/ CharValue(c) = \hF4

isTrash(c) ==
    \/ BitAnd(c, \hFE) = \hC0
    \/ (BitAnd(c, \hF0) = \hF0 /\ BitAnd(c, \h0C) # \h00 /\ CharValue(c) # \hF4)

\* the parameters are unsigned char: the byte values themselves
badPair(c1, c2) ==
    \/ (c1 = \hE0 /\ c2 < \hA0)
    \/ (c1 = \hED /\ c2 > \h9F)
    \/ (c1 = \hF0 /\ c2 < \h90)
    \/ (c1 = \hF4 /\ c2 > \h8F)

implicit_length(c) ==
    IF isASCII(c) THEN 1
    ELSE IF isLead2(c) THEN 2
    ELSE IF isLead3(c) THEN 3
    ELSE IF isLead4(c) THEN 4
    ELSE 0

valid_trail3(c1, c2, c3) == ~badPair(c1, c2) /\ isTrail(c2) /\ isTrail(c3)

valid_trail4(c1, c2, c3, c4) == ~badPair(c1, c2) /\ isTrail(c2) /\ isTrail(c3) /\ isTrail(c4)

to32_2(c1, c2) == BitOr(BitAnd(c1, \h1F) * 64, BitAnd(c2, \h3F))

to32_3(c1, c2, c3) ==
    BitOr(BitOr(BitAnd(c1, \h0F) * 4096, BitAnd(c2, \h3F) * 64), BitAnd(c3, \h3F))

to32_4(c1, c2, c3, c4) ==
    BitOr(BitOr(BitOr(BitAnd(c1, \h07) * 262144, BitAnd(c2, \h3F) * 4096),
                BitAnd(c3, \h3F) * 64), BitAnd(c4, \h3F))

----------------------------------------------------------------------------
(* One loop iteration of each converter: the units appended to the output  *)
(* and the value of the loop index at the next loop test.                  *)

\* utf16to32, lines 64-70
utf16to32_iter(w, k) ==
    IF /\ w[k + 1] >= \hD800 /\ w[k + 1] < \hDC00 /\ k + 1 < Len(w)
       /\ w[k + 2] >= \hDC00 /\ w[k + 2] <= \hDFFF
    THEN [out |-> << Char32(BitOr(BitAnd(w[k + 1], \h7FF) * 1024,
                                  BitAnd(w[k + 2], \h03FF)) + \h10000) >>,
          next |-> k + 2]
    ELSE [out |-> << w[k + 1] >>, next |-> k + 1]

\* utf32to16 with the test of line 77 written u[i] > 0x10000
utf32to16_iter_gt(u, k) ==
    IF u[k + 1] > \h10000
    THEN [out |-> << Wchar(\hD800 + ((u[k + 1] - \h10000) \div 1024)),
                     Wchar(\hDC00 + BitAnd(u[k + 1], \h03FF)) >>,
          next |-> k + 1]
    ELSE [out |-> << Wchar(u[k + 1]) >>, next |-> k + 1]

\* utf32to16, lines 76-82
utf32to16_iter(u, k) ==
    IF u[k + 1] >= \h10000
    THEN [out |-> << Wchar(\hD800 + ((u[k + 1] - \h10000) \div 1024)),
                     Wchar(\hDC00 + BitAnd(u[k + 1], \h03FF)) >>,
          next |-> k + 1]
    ELSE [out |-> << Wchar(u[k + 1]) >>, next |-> k + 1]

\* s[k] of a string_view: a read at or past the end is outside the view and
\* yields whatever byte the memory holds there (junk[1] at index length, ...)
At(s, k, junk) == IF k < Len(s) THEN s[k + 1] ELSE junk[k - Len(s) + 1]

\* utf8to32 and utf8to16, lines 110 and 169: the unit appended for an invalid byte
invalidUnit(c, e) == IF e = "Preserve_8" THEN \hDC00 + CharValue(c) ELSE \hFFFD

\* utf8to32, lines 89-110
utf8to32_iter(s, k, e, junk) ==
    LET c == s[k + 1]
        n == implicit_length(c)
        invalid == [out |-> << Char32(invalidUnit(c, e)) >>, next |-> k + 1]
    IN  IF n = 1 THEN [out |-> << Char32(CharValue(c)) >>, next |-> k + 1]
        ELSE IF n = 2 THEN
            IF k + 1 >= Len(s) \/ ~isTrail(s[k + 2]) THEN invalid
            ELSE [out |-> << to32_2(c, s[k + 2]) >>, next |-> k + 2]
        ELSE IF n = 3 THEN
            IF k + 2 >= Len(s) \/ ~isTrail(s[k + 2]) \/ ~isTrail(s[k + 3]) THEN invalid
            ELSE IF (e # "Preserve_16" \/ CharValue(c) # \hED) /\ badPair(c, s[k + 2])
                 THEN invalid
            ELSE [out |-> << Wchar(to32_3(c, s[k + 2], s[k + 3])) >>, next |-> k + 3]
        ELSE IF n = 4 THEN
            \* the condition is a comma expression: its value is s[i + 3] alone
            IF At(s, k + 3, junk) # 0 THEN invalid
            ELSE [out |-> << to32_3(c, At(s, k + 1, junk), At(s, k + 2, junk)) >>,
                  next |-> k + 4]
        ELSE invalid

\* utf32to8, lines 118-138: the bytes appended for one value c
utf32to8_iter(c, e) ==
    IF c < \h80 THEN << Char(c) >>
    ELSE IF c < \h800 THEN
        << Char(BitOr(c \div 64, \hC0)), Char(BitOr(BitAnd(c, \h3F), \h80)) >>
    ELSE IF c >= \hD800 /\ c <= \hDFFF /\ e # "Preserve_16" THEN
        IF e = "Preserve_8" /\ (c >= \hDC80 /\ c <= \hDCFF)
        THEN << Char(BitAnd(\hFF, c)) >>
        ELSE << \hEF, \hBF, \hBD >>
    ELSE IF c <= \h10000 THEN
        << Char(BitOr(c \div 4096, \hE0)),
           Char(BitOr(BitAnd(c \div 64, \h3F), \h80)),
           Char(BitOr(BitAnd(c, \h3F), \h80)) >>
    ELSE IF c <= \h110000 THEN
        << Char(BitOr(c \div 262144, \hF0)),
           Char(BitOr(BitAnd(c \div 4096, \h3F), \h80)),
           Char(BitOr(BitAnd(c \div 64, \h3F), \h80)),
           Char(BitOr(BitAnd(c, \h3F), \h80)) >>
    ELSE << \hEF, \hBF, \hBD >>

\* utf8to16, lines 146-169
utf8to16_iter(s, k, e) ==
    LET c == s[k + 1]
        n == implicit_length(c)
        invalid == [out |-> << Wchar(invalidUnit(c, e)) >>, next |-> k + 1]
    IN  IF n = 1 THEN [out |-> << Wchar(CharValue(c)) >>, next |-> k + 1]
        ELSE IF n = 2 THEN
            IF k + 1 >= Len(s) \/ ~isTrail(s[k + 2]) THEN invalid
            ELSE [out |-> << Wchar(to32_2(c, s[k + 2])) >>, next |-> k + 2]
        ELSE IF n = 3 THEN
            IF k + 2 >= Len(s) \/ ~isTrail(s[k + 2]) \/ ~isTrail(s[k + 3]) THEN invalid
            ELSE IF (e # "Preserve_16" \/ CharValue(c) # \hED) /\ badPair(c, s[k + 2])
                 THEN invalid
            ELSE [out |-> << Wchar(to32_3(c, s[k + 2], s[k + 3])) >>, next |-> k + 3]
        ELSE IF n = 4 THEN
            IF k + 3 >= Len(s) \/ ~valid_trail4(c, s[k + 2], s[k + 3], s[k + 4]) THEN invalid
            ELSE LET u == to32_4(c, s[k + 2], s[k + 3], s[k + 4])
                 IN  [out |-> << Wchar(\hD800 + (Char32(u - \h10000) \div 1024)),
                                 Wchar(\hDC00 + BitAnd(u, \h03FF)) >>,
                      next |-> k + 4]
        ELSE invalid

\* utf16to8, lines 177-204
utf16to8_iter(w, k, e) ==
    LET c == w[k + 1]
    IN  IF c < \h80 THEN [out |-> << Char(c) >>, next |-> k + 1]
        ELSE IF c < \h800 THEN
            [out |-> << Char(BitOr(c \div 64, \hC0)), Char(BitOr(BitAnd(c, \h3F), \h80)) >>,
             next |-> k + 1]
        ELSE IF c < \hD800 /\ c > \hDFFF THEN
            [out |-> << Char(BitOr(c \div 4096, \hE0)),
                        Char(BitOr(BitAnd(c \div 64, \h3F), \h80)),
                        Char(BitOr(BitAnd(c, \h3F), \h80)) >>,
             next |-> k + 1]
        ELSE IF k + 1 < Len(w) /\ w[k + 2] >= \hDC00 /\ w[k + 2] <= \hDFFF THEN
            LET u == Char32(BitOr(BitAnd(c, \h7FF) * 1024, BitAnd(w[k + 2], \h03FF)) + \h10000)
            IN  [out |-> << Char(BitOr(u \div 262144, \hF0)),
                            Char(BitOr(BitAnd(u \div 4096, \h3F), \h80)),
                            Char(BitOr(BitAnd(u \div 64, \h3F), \h80)),
                            Char(BitOr(BitAnd(u, \h3F), \h80)) >>,
                 next |-> k + 2]
        ELSE IF e = "Preserve_8" /\ (c >= \hDC80 /\ c <= \hDCFF) THEN
            [out |-> << Char(BitAnd(\hFF, c)) >>, next |-> k + 1]
        ELSE IF e = "Preserve_16" THEN
            [out |-> << \hED, Char(BitOr(BitAnd(c \div 64, \h3F), \h80)),
                        Char(BitOr(BitAnd(c, \h3F), \h80)) >>,
             next |-> k + 1]
        ELSE [out |-> << \hEF, \hBF, \hBD >>, next |-> k + 1]

----------------------------------------------------------------------------
(* Inputs of the converter runs *)

Policies == { "Substitute", "Preserve_8", "Preserve_16" }

\* all sequences over S of length at most n
SeqsUpTo(S, n) == UNION { [1..m -> S] : m \in 0..n }

\* 16-bit units: ASCII, 2-byte and 3-byte range, both ends of the high and
\* low surrogate ranges, a unit of the Preserve_8 escape range
Units16 == { \h41, \h7FF, \h800, \h20AC, \hD7FF, \hD800, \hDBFF,
             \hDC00, \hDC80, \hDFFF, \hE000, \hFFFF }

\* byte pieces: well-formed characters of every width with the boundary
\* code points U+0800, U+FFFF, U+10000, U+10FFFF, then ill-formed pieces
\* (stray trail, trash, truncated sequences, an encoded surrogate)
Pieces8 == { << \h00 >>, << \h41 >>, << \hC3, \hA9 >>,
             << \hE0, \hA0, \h80 >>, << \hE2, \h82, \hAC >>, << \hEF, \hBF, \hBF >>,
             << \hF0, \h90, \h80, \h80 >>, << \hF4, \h8F, \hBF, \hBF >>,
             << \h80 >>, << \hC0 >>, << \hFF >>, << \hF0 >>,
             << \hE2, \h82 >>, << \hF0, \h90, \h80 >>, << \hED, \hA0, \h80 >> }

RECURSIVE Concat(_)
Concat(ps) == IF ps = << >> THEN << >> ELSE Head(ps) \o Concat(Tail(ps))

Inputs8 == { Concat(ps) : ps \in SeqsUpTo(Pieces8, MaxPieces) }

\* bytes a read outside the view may find
JunkBytes == { \h00, \h41, \h80 }

\* utf8to32 reads outside the view only at line 105, for a 4-byte lead with
\* fewer than three bytes after it
readsOutside(s, k) == implicit_length(s[k + 1]) = 4 /\ k + 3 >= Len(s)

JunkFor(s, k) ==
    IF readsOutside(s, k)
    THEN [1..3 -> JunkBytes]
    ELSE { << 0, 0, 0 >> }

----------------------------------------------------------------------------
(* The converter runs: one action per loop iteration *)

AdapterIdle ==
    /\ adapter = "none" /\ codepage = "none" /\ buf = << >> /\ safeSize = 0
    /\ workingPoint = 0 /\ r = << >> /\ segs = << >> /\ apc = "done"

ConvStart(f, g, input) ==
    /\ fn = f /\ first = f /\ second = g
    /\ src = input /\ orig = input
    /\ i = 0 /\ dst = << >> /\ stage = 1 /\ lastAdv = 0 /\ lastOut = << >>

\* the loop body appended res.out and left the index at res.next
Iterate(res) ==
    /\ dst' = dst \o res.out
    /\ i' = res.next
    /\ lastAdv' = res.next - i
    /\ lastOut' = res.out
    /\ UNCHANGED << charSigned, errs, fn, src, orig, first, second, stage >>
    /\ UNCHANGED adapterVars

utf16to32 ==
    /\ fn = "utf16to32" /\ i < Len(src)
    /\ Iterate(utf16to32_iter(src, i))

utf32to16 ==
    /\ fn = "utf32to16" /\ i < Len(src)
    /\ Iterate(utf32to16_iter(src, i))

utf8to32 ==
    /\ fn = "utf8to32" /\ i < Len(src)
    /\ \E junk \in JunkFor(src, i) : Iterate(utf8to32_iter(src, i, errs, junk))

utf32to8 ==
    /\ fn = "utf32to8" /\ i < Len(src)
    /\ Iterate([out |-> utf32to8_iter(src[i + 1], errs), next |-> i + 1])

utf8to16 ==
    /\ fn = "utf8to16" /\ i < Len(src)
    /\ Iterate(utf8to16_iter(src, i, errs))

utf16to8 ==
    /\ fn = "utf16to8" /\ i < Len(src)
    /\ Iterate(utf16to8_iter(src, i, errs))

\* the first converter's loop has ended: it returns its string, and the
\* second converter is called on it with the same policy
Return ==
    /\ stage = 1 /\ i >= Len(src)
    /\ fn' = second /\ src' = dst /\ i' = 0 /\ dst' = << >> /\ stage' = 2
    /\ lastAdv' = 0 /\ lastOut' = << >>
    /\ UNCHANGED << charSigned, errs, orig, first, second >>
    /\ UNCHANGED adapterVars

\* the second converter has returned: dst is the result of the composition
Returned(f, g) == first = f /\ fn = g /\ stage = 2 /\ i >= Len(src)

\* 16-bit <-> 32-bit
InitWiden ==
    /\ charSigned \in BOOLEAN /\ errs = "Substitute"
    /\ \E w \in SeqsUpTo(Units16, MaxUnits) : ConvStart("utf16to32", "utf32to16", w)
    /\ AdapterIdle

NextWiden == utf16to32 \/ utf32to16 \/ Return

SpecWiden == InitWiden /\ [][NextWiden]_vars

\* 8-bit input decoded, then encoded again
Init8 ==
    /\ charSigned \in BOOLEAN /\ errs \in Policies
    /\ \E s \in Inputs8 :
          \/ ConvStart("utf8to32", "utf32to8", s)
          \/ ConvStart("utf8to16", "utf16to8", s)
    /\ AdapterIdle

Next8 == utf8to32 \/ utf32to8 \/ utf8to16 \/ utf16to8 \/ Return

Spec8 == Init8 /\ [][Next8]_vars

\* 16-bit input encoded, then decoded again
Init16 ==
    /\ charSigned \in BOOLEAN /\ errs \in Policies
    /\ \E w \in SeqsUpTo(Units16, MaxUnits) : ConvStart("utf16to8", "utf8to16", w)
    /\ AdapterIdle

Next16 == utf16to8 \/ utf8to16 \/ Return

Spec16 == Init16 /\ [][Next16]_vars

----------------------------------------------------------------------------
(* Vocabulary of the claims, stated from the Unicode standard and not from *)
(* the code under check                                                    *)

InRange(b, lo, hi) == lo <= b /\ b <= hi

\* width of the well-formed UTF-8 sequence that starts at index k of s
\* (Unicode Standard, table 3-7), or 0 when none starts there
WellFormedWidth(s, k) ==
    LET n == Len(s) - k
        b1 == s[k + 1]
        T(j) == InRange(s[k + j], 128, 191)
    IN  IF b1 <= 127 THEN 1
        ELSE IF InRange(b1, 194, 223) THEN (IF n >= 2 /\ T(2) THEN 2 ELSE 0)
        ELSE IF b1 = 224 THEN (IF n >= 3 /\ InRange(s[k + 2], 160, 191) /\ T(3) THEN 3 ELSE 0)
        ELSE IF InRange(b1, 225, 236) \/ InRange(b1, 238, 239)
             THEN (IF n >= 3 /\ T(2) /\ T(3) THEN 3 ELSE 0)
        ELSE IF b1 = 237 THEN (IF n >= 3 /\ InRange(s[k + 2], 128, 159) /\ T(3) THEN 3 ELSE 0)
        ELSE IF b1 = 240
             THEN (IF n >= 4 /\ InRange(s[k + 2], 144, 191) /\ T(3) /\ T(4) THEN 4 ELSE 0)
        ELSE IF InRange(b1, 241, 243) THEN (IF n >= 4 /\ T(2) /\ T(3) /\ T(4) THEN 4 ELSE 0)
        ELSE IF b1 = 244
             THEN (IF n >= 4 /\ InRange(s[k + 2], 128, 143) /\ T(3) /\ T(4) THEN 4 ELSE 0)
        ELSE 0

RECURSIVE WellFormedFrom(_, _)
WellFormedFrom(s, k) ==
    IF k >= Len(s) THEN TRUE
    ELSE LET n == WellFormedWidth(s, k) IN n > 0 /\ WellFormedFrom(s, k + n)

WellFormed8(s) == WellFormedFrom(s, 0)

\* some character of s is encoded on n bytes
RECURSIVE HasWidthFrom(_, _, _)
HasWidthFrom(s, k, n) ==
    /\ k < Len(s)
    /\ LET m == WellFormedWidth(s, k)
       IN  m = n \/ (m > 0 /\ HasWidthFrom(s, k + m, n))

IsHigh(c) == InRange(c, 55296, 56319)
IsLow(c) == InRange(c, 56320, 57343)

\* number of lone surrogates of w from index k on, pairing left to right
RECURSIVE LoneCount(_, _)
LoneCount(w, k) ==
    IF k >= Len(w) THEN 0
    ELSE IF IsHigh(w[k + 1]) /\ k + 1 < Len(w) /\ IsLow(w[k + 2]) THEN LoneCount(w, k + 2)
    ELSE (IF IsHigh(w[k + 1]) \/ IsLow(w[k + 1]) THEN 1 ELSE 0) + LoneCount(w, k + 1)

\* number of complete surrogate pairs of w from index k on
RECURSIVE PairCount(_, _)
PairCount(w, k) ==
    IF k >= Len(w) THEN 0
    ELSE IF IsHigh(w[k + 1]) /\ k + 1 < Len(w) /\ IsLow(w[k + 2]) THEN 1 + PairCount(w, k + 2)
    ELSE PairCount(w, k + 1)

\* combine(high, low) of the specification
Combine(h, l) == ((h % 1024) * 1024 + (l % 1024)) + 65536

----------------------------------------------------------------------------
(* The external codec of the chunked adapters (Windows API, called at      *)
(* UtilityFrameworkMIT.h lines 46-49, 52-55, 68-71, 74-77): it converts    *)
(* each complete character of the block it is handed on its own, and what  *)
(* is not a complete character inside the block becomes a replacement.     *)

CodePages == { "CP_UTF8", "CP_1252" }

\* UTF-8 bytes of code point cp
Utf8Of(cp) ==
    IF cp < 128 THEN << cp >>
    ELSE IF cp < 2048 THEN << 192 + (cp \div 64), 128 + (cp % 64) >>
    ELSE IF cp < 65536 THEN << 224 + (cp \div 4096), 128 + ((cp \div 64) % 64), 128 + (cp % 64) >>
    ELSE << 240 + (cp \div 262144), 128 + ((cp \div 4096) % 64),
            128 + ((cp \div 64) % 64), 128 + (cp % 64) >>

\* bytes for the code point cp in code page cp_
BytesOf(cp, cp_) ==
    IF cp_ = "CP_UTF8" THEN Utf8Of(cp)
    ELSE IF cp < 128 THEN << cp >> ELSE << \h3F >>

RECURSIVE WideCharToMultiByte(_, _)
WideCharToMultiByte(cp_, w) ==
    IF w = << >> THEN << >>
    ELSE IF Len(w) >= 2 /\ InRange(w[1], \hD800, \hDBFF) /\ InRange(w[2], \hDC00, \hDFFF)
         THEN BytesOf((w[1] - \hD800) * 1024 + (w[2] - \hDC00) + \h10000, cp_)
                  \o WideCharToMultiByte(cp_, SubSeq(w, 3, Len(w)))
    ELSE IF InRange(w[1], \hD800, \hDFFF)
         THEN BytesOf(\hFFFD, cp_) \o WideCharToMultiByte(cp_, Tail(w))
    ELSE BytesOf(w[1], cp_) \o WideCharToMultiByte(cp_, Tail(w))

\* 16-bit units of code point cp
WideOf(cp) ==
    IF cp < 65536 THEN << cp >>
    ELSE << \hD800 + ((cp - 65536) \div 1024), \hDC00 + ((cp - 65536) % 1024) >>

\* code point of the well-formed UTF-8 sequence of n bytes at the head of s
CodePointOf(s, n) ==
    IF n = 1 THEN s[1]
    ELSE IF n = 2 THEN (s[1] - 192) * 64 + (s[2] - 128)
    ELSE IF n = 3 THEN (s[1] - 224) * 4096 + (s[2] - 128) * 64 + (s[3] - 128)
    ELSE (s[1] - 240) * 262144 + (s[2] - 128) * 4096 + (s[3] - 128) * 64 + (s[4] - 128)

RECURSIVE MultiByteToWideChar(_, _)
MultiByteToWideChar(cp_, s) ==
    IF s = << >> THEN << >>
    ELSE IF cp_ = "CP_UTF8" THEN
        LET n == WellFormedWidth(s, 0)
        IN  IF n > 0
            THEN WideOf(CodePointOf(s, n)) \o MultiByteToWideChar(cp_, SubSeq(s, n + 1, Len(s)))
            ELSE << \hFFFD >> \o MultiByteToWideChar(cp_, Tail(s))
    ELSE << (IF s[1] = \h82 THEN \h201A ELSE s[1]) >> \o MultiByteToWideChar(cp_, Tail(s))

----------------------------------------------------------------------------
(* fromWide and toWide: one action per block of the while loop, one for    *)
(* the call on what is left after it                                       *)

\* 16-bit units of the adapter inputs: an ordinary unit, a high and a low surrogate
WideUnits == { \h41, \hD83D, \hDE00 }

\* bytes of the adapter inputs: ASCII, a 3-byte lead, a continuation byte
NarrowBytes == { \h41, \hE2, \h82 }

MaxCalls == MaxBuf + 1

\* the calls made so far; the record stops growing once MaxCalls are kept
Logged(log, call) == IF Len(log) < MaxCalls THEN Append(log, call) ELSE log

ConvIdle ==
    /\ charSigned \in BOOLEAN /\ errs = "Substitute"
    /\ fn = "none" /\ first = "none" /\ second = "none"
    /\ src = << >> /\ orig = << >> /\ i = 0 /\ dst = << >> /\ stage = 0
    /\ lastAdv = 0 /\ lastOut = << >>

\* lines 38-42 and 60-64: an empty input returns at once
AdapterStart(f, input) ==
    /\ adapter = f /\ buf = input
    /\ codepage \in CodePages
    /\ safeSize \in 2..MaxSafeSize
    /\ workingPoint = 0 /\ r = << >> /\ segs = << >>
    /\ apc = IF Len(input) = 0 THEN "done" ELSE "loop"

\* buf[k] for the 0-based index k of the source
BufAt(k) == buf[k + 1]

\* the block handed to the external codec: ss units from s.data() + workingPoint
Block(ss) == SubSeq(buf, workingPoint + 1, workingPoint + ss)

\* fromWide line 45 testing for a low surrogate (0xDC00..0xDFFF) instead
fromWide_ss_low ==
    IF BufAt(safeSize - 1) >= \hDC00 /\ BufAt(safeSize - 1) <= \hDFFF
    THEN safeSize - 1
    ELSE safeSize

\* fromWide lines 44-45: length of the block
fromWide_ss ==
    IF BufAt(safeSize - 1) >= \hD800 /\ BufAt(safeSize - 1) <= \hDBFF
    THEN safeSize - 1
    ELSE safeSize

\* fromWide lines 43-51
fromWideBlock ==
    /\ adapter = "fromWide" /\ apc = "loop"
    /\ Len(buf) - workingPoint > safeSize
    /\ LET ss == fromWide_ss
       IN  /\ r' = r \o WideCharToMultiByte(codepage, Block(ss))
           /\ segs' = Logged(segs, << workingPoint, ss >>)
           /\ workingPoint' = workingPoint + ss
    /\ UNCHANGED << adapter, codepage, buf, safeSize, apc >>
    /\ UNCHANGED convVars

\* fromWide lines 52-56
fromWideRest ==
    /\ adapter = "fromWide" /\ apc = "loop"
    /\ ~(Len(buf) - workingPoint > safeSize)
    /\ r' = r \o WideCharToMultiByte(codepage, Block(Len(buf) - workingPoint))
    /\ segs' = Logged(segs, << workingPoint, Len(buf) - workingPoint >>)
    /\ apc' = "done"
    /\ UNCHANGED << adapter, codepage, buf, safeSize, workingPoint >>
    /\ UNCHANGED convVars

\* toWide line 67, the loop while ((s[--ss] & 0xC0) == 0x80): the index it
\* stops at when started below k, or -1 when it leaves the string at s[-1]
RECURSIVE WalkBack(_)
WalkBack(k) ==
    IF k = 0 THEN -1
    ELSE IF BitAnd(BufAt(k - 1), \hC0) = \h80 THEN WalkBack(k - 1)
    ELSE k - 1

\* toWide lines 66-67: length of the block
toWide_ss ==
    IF codepage = "CP_UTF8" /\ BitAnd(BufAt(safeSize), \hC0) = \h80
    THEN WalkBack(safeSize)
    ELSE safeSize

\* toWide lines 65-73; a walk that reads s[-1] has left the string, and
\* nothing is known of the run from there on
toWideBlock ==
    /\ adapter = "toWide" /\ apc = "loop"
    /\ Len(buf) - workingPoint > safeSize
    /\ LET ss == toWide_ss
       IN  IF ss < 0
           THEN /\ apc' = "undefined"
                /\ UNCHANGED << r, segs, workingPoint >>
           ELSE /\ r' = r \o MultiByteToWideChar(codepage, Block(ss))
                /\ segs' = Logged(segs, << workingPoint, ss >>)
                /\ workingPoint' = workingPoint + ss
                /\ apc' = apc
    /\ UNCHANGED << adapter, codepage, buf, safeSize >>
    /\ UNCHANGED convVars

\* toWide lines 74-78
toWideRest ==
    /\ adapter = "toWide" /\ apc = "loop"
    /\ ~(Len(buf) - workingPoint > safeSize)
    /\ r' = r \o MultiByteToWideChar(codepage, Block(Len(buf) - workingPoint))
    /\ segs' = Logged(segs, << workingPoint, Len(buf) - workingPoint >>)
    /\ apc' = "done"
    /\ UNCHANGED << adapter, codepage, buf, safeSize, workingPoint >>
    /\ UNCHANGED convVars

InitAdapter ==
    /\ ConvIdle
    /\ \/ \E w \in SeqsUpTo(WideUnits, MaxBuf) : AdapterStart("fromWide", w)
       \/ \E s \in SeqsUpTo(NarrowBytes, MaxBuf) : AdapterStart("toWide", s)

NextAdapter == fromWideBlock \/ fromWideRest \/ toWideBlock \/ toWideRest

SpecAdapter == InitAdapter /\ [][NextAdapter]_vars

----------------------------------------------------------------------------
(* Claims *)

\* C1: for every well-formed UTF-8 sequence s and each policy p,
\* utf32to8(utf8to32(s, p), p) equals s byte for byte.
C1_RoundTrip8to32 ==
    (Returned("utf8to32", "utf32to8") /\ WellFormed8(orig)) => dst = orig

\* C2: for every well-formed UTF-8 sequence s and each policy p,
\* utf16to8(utf8to16(s, p), p) equals s byte for byte.
C2_RoundTrip8to16 ==
    (Returned("utf8to16", "utf16to8") /\ WellFormed8(orig)) => dst = orig

\* C3: Preserve_8 round trip: for every byte sequence s, valid or not,
\* utf32to8(utf8to32(s, Preserve_8), Preserve_8) equals s byte for byte.
C3_Preserve8RoundTrip ==
    (Returned("utf8to32", "utf32to8") /\ errs = "Preserve_8") => dst = orig

\* C4: Preserve_16 round trip: for every 16-bit sequence u that contains lone
\* surrogates, utf8to16(utf16to8(u, Preserve_16), Preserve_16) equals u.
C4_Preserve16RoundTrip ==
    (Returned("utf16to8", "utf8to16") /\ errs = "Preserve_16" /\ LoneCount(orig, 0) > 0)
        => dst = orig

\* C5: for every 16-bit sequence u made only of non-surrogate units and
\* complete pairs, utf32to16(utf16to32(u)) equals u; each complete pair widens
\* to exactly one value ((high & 0x3FF) << 10 | (low & 0x3FF)) + 0x10000 and
\* every other unit to itself.
C5_WidenNarrow ==
    /\ (Returned("utf16to32", "utf32to16") /\ LoneCount(orig, 0) = 0) => dst = orig
    /\ (fn = "utf16to32" /\ stage = 1 /\ LoneCount(src, 0) = 0 /\ lastAdv > 0) =>
          IF IsHigh(src[i - lastAdv + 1])
          THEN lastAdv = 2 /\ lastOut = << Combine(src[i - 1], src[i]) >>
          ELSE lastAdv = 1 /\ lastOut = << src[i] >>

\* C5 witness: a sequence holding a complete pair and an ordinary unit has
\* been widened and narrowed back to itself
C5_Witness ==
    /\ Returned("utf16to32", "utf32to16") /\ LoneCount(orig, 0) = 0
    /\ PairCount(orig, 0) > 0 /\ Len(orig) = 3 /\ dst = orig

\* C6: under Substitute, in utf8to32 and utf8to16, a byte at the scan position
\* that starts no well-formed sequence yields exactly one U+FFFD and the scan
\* advances by exactly one byte.
C6_AdvanceByOne ==
    [][ ( /\ fn \in { "utf8to32", "utf8to16" } /\ errs = "Substitute"
          /\ i < Len(src) /\ WellFormedWidth(src, i) = 0 )
        => (i' = i + 1 /\ dst' = Append(dst, 65533)) ]_vars

\* the boundary at 0-based index e of s falls inside a well-formed character
RECURSIVE InsideChar(_, _, _)
InsideChar(s, k, e) ==
    IF k >= e THEN FALSE
    ELSE LET n == WellFormedWidth(s, k)
         IN  IF n > 0 THEN k + n > e \/ InsideChar(s, k + n, e)
             ELSE InsideChar(s, k + 1, e)

\* greatest index below e of a byte of s that is no continuation byte, or -1
RECURSIVE LastStart(_, _)
LastStart(s, e) ==
    IF e = 0 THEN -1
    ELSE IF InRange(s[e], 128, 191) THEN LastStart(s, e - 1)
    ELSE e - 1

CallLengths == [k \in 1..Len(segs) |-> segs[k][2]]

\* a call made inside the while loop: more than safeSize units were left
LoopCall(k) == Len(buf) - segs[k][1] > safeSize

\* offset just after call k
CallEnd(k) == segs[k][1] + segs[k][2]

\* C7: in fromWide every chunk handed to the codec has at most L units, no
\* chunk ends with a high surrogate whose low surrogate opens the next chunk,
\* and the chunk is one unit shorter exactly when the last unit of the current
\* chunk (offset workingPoint + L - 1) is a high surrogate, in every block.
C7_FromWideBoundary ==
    adapter = "fromWide" =>
        \A k \in 1..Len(segs) :
            /\ segs[k][2] <= safeSize
            /\ (segs[k][2] > 0 /\ CallEnd(k) < Len(buf)) =>
                   ~(IsHigh(buf[CallEnd(k)]) /\ IsLow(buf[CallEnd(k) + 1]))
            /\ LoopCall(k) =>
                   segs[k][2] = IF IsHigh(buf[segs[k][1] + safeSize])
                                THEN safeSize - 1 ELSE safeSize

\* C8: in toWide with the UTF-8 code page every chunk has at most L bytes, no
\* chunk boundary falls inside a multi-byte character, and the continuation
\* test is made at the candidate boundary of the current chunk (offset
\* workingPoint + L), in every block.
C8_ToWideBoundary ==
    (adapter = "toWide" /\ codepage = "CP_UTF8") =>
        \A k \in 1..Len(segs) :
            /\ segs[k][2] <= safeSize
            /\ CallEnd(k) < Len(buf) => ~InsideChar(buf, 0, CallEnd(k))
            /\ LoopCall(k) =>
                   LET cut == segs[k][1] + safeSize
                   IN  IF ~InRange(buf[cut + 1], 128, 191) THEN segs[k][2] = safeSize
                       ELSE LastStart(buf, cut) > segs[k][1] =>
                                segs[k][2] = LastStart(buf, cut) - segs[k][1]

\* the calls are contiguous, in input order, and cover the input once
Covers ==
    /\ Len(buf) > 0 => (Len(segs) > 0 /\ segs[1][1] = 0 /\ CallEnd(Len(segs)) = Len(buf))
    /\ \A k \in 1..Len(segs) : segs[k][2] >= 0
    /\ \A k \in 1..(Len(segs) - 1) : segs[k + 1][1] = CallEnd(k)

\* C9: the concatenation of the per-chunk results of fromWide (and of toWide)
\* equals one codec call on the whole buffer; the chunks are contiguous,
\* non-overlapping, cover the input once and are appended in input order.
C9_SameAsOneCall ==
    apc = "done" =>
        /\ Covers
        /\ adapter = "fromWide" => r = WideCharToMultiByte(codepage, buf)
        /\ adapter = "toWide" => r = MultiByteToWideChar(codepage, buf)

\* the scenario of C10: limit 4, six units
Scenario10 == adapter = "fromWide" /\ apc = "done" /\ safeSize = 4 /\ Len(buf) = 6

\* C10 as stated: with L = 4 and 6 units forming 3 complete pairs, fromWide
\* never calls the codec with exactly 4 units when unit 3 is a high surrogate;
\* it calls the codec with 3 units, then with 3 units.
C10_ThreeThenThree ==
    (Scenario10 /\ PairCount(buf, 0) = 3) =>
        /\ IsHigh(buf[4]) => \A k \in 1..Len(segs) : segs[k][2] # 4
        /\ CallLengths = << 3, 3 >>

\* C10 amended: with L = 4 and 6 units forming 3 complete pairs (unit 3 is then
\* a low surrogate) fromWide calls the codec with 4 units, then with 2; with 6
\* units of which unit 3 is a high surrogate it never calls the codec with
\* exactly 4 units: it calls with 3 units, then with 3.
C10_FourThenTwo ==
    Scenario10 =>
        /\ PairCount(buf, 0) = 3 => CallLengths = << 4, 2 >>
        /\ IsHigh(buf[4]) => CallLengths = << 3, 3 >>

\* C10 witness: three complete pairs went through fromWide with limit 4
C10_Witness ==
    /\ Scenario10 /\ PairCount(buf, 0) = 3
    /\ segs = << << 0, 4 >>, << 4, 2 >> >>
    /\ r = WideCharToMultiByte(codepage, buf)

----------------------------------------------------------------------------
(* The byte classifier applied to one byte *)

Flag(p) == IF p THEN 1 ELSE 0

\* implicit_length and the six predicates of namespace utf8byte, lines 35-51,
\* applied to the byte src[1]; dst receives
\* << implicit_length, isASCII, isTrail, isLead2, isLead3, isLead4, isTrash >>
classify ==
    /\ fn = "implicit_length" /\ i = 0
    /\ LET c == src[1]
       IN  dst' = << implicit_length(c), Flag(isASCII(c)), Flag(isTrail(c)), Flag(isLead2(c)),
                     Flag(isLead3(c)), Flag(isLead4(c)), Flag(isTrash(c)) >>
    /\ i' = 1 /\ lastAdv' = 1 /\ lastOut' = << >>
    /\ UNCHANGED << charSigned, errs, fn, src, orig, first, second, stage >>
    /\ UNCHANGED adapterVars

InitClassify ==
    /\ charSigned \in BOOLEAN /\ errs = "Substitute"
    /\ \E b \in 0..255 : ConvStart("implicit_length", "none", << b >>)
    /\ AdapterIdle

NextClassify == classify

SpecClassify == InitClassify /\ [][NextClassify]_vars

----------------------------------------------------------------------------
(* Claims on the converters, continued *)

\* nominal width of the lead byte b (2, 3 or 4), or 0 when b is no lead byte
LeadWidth(b) ==
    IF InRange(b, 194, 223) THEN 2
    ELSE IF InRange(b, 224, 239) THEN 3
    ELSE IF InRange(b, 240, 244) THEN 4
    ELSE 0

\* the byte at index k of s is a lead with fewer bytes after it than its width asks
Truncated(s, k) == LeadWidth(s[k + 1]) > Len(s) - k

Decoders == { "utf8to32", "utf8to16" }

\* C11: the converters never read an input index at or beyond the input
\* length and give a defined result: an empty input gives an empty output; in
\* utf8to32 and utf8to16 a lead with too few bytes left yields exactly one unit
\* for the lead and an advance of one byte; C0 80 yields one invalid unit per
\* byte and never code point 0.
C11_DefinedResult ==
    [][ /\ (src = << >> /\ i >= Len(src)) => dst = << >>
        /\ (fn = "utf8to32" /\ i < Len(src)) => ~readsOutside(src, i)
        /\ (fn \in Decoders /\ i < Len(src) /\ Truncated(src, i)) =>
               (i' = i + 1 /\ Len(dst') = Len(dst) + 1)
        /\ (fn \in Decoders /\ i < Len(src) /\ src[i + 1] \in { 192, 128 }) =>
               (i' = i + 1 /\ Len(dst') = Len(dst) + 1 /\ dst'[Len(dst')] # 0)
      ]_vars

\* implicit_length as C12 states it
ExpectedLength(b) ==
    IF InRange(b, 0, 127) THEN 1
    ELSE IF InRange(b, 128, 191) \/ b = 192 \/ b = 193 THEN 0
    ELSE IF InRange(b, 194, 223) THEN 2
    ELSE IF InRange(b, 224, 239) THEN 3
    ELSE IF InRange(b, 240, 244) THEN 4
    ELSE 0

\* C12: for every byte b, implicit_length(b) is 1 for 00..7F, 0 for 80..BF and
\* C0, C1, 2 for C2..DF, 3 for E0..EF, 4 for F0..F4 and 0 for F5..FF; isTrash
\* holds exactly for C0, C1 and F5..FF; every byte is in exactly one of the
\* classes ASCII, continuation, 2-lead, 3-lead, 4-lead, trash.
C12_Classes ==
    (fn = "implicit_length" /\ i = 1) =>
        LET b == src[1]
        IN  /\ dst[1] = ExpectedLength(b)
            /\ dst[7] = Flag(b = 192 \/ b = 193 \/ InRange(b, 245, 255))
            /\ dst[2] + dst[3] + dst[4] + dst[5] + dst[6] + dst[7] = 1

Encoders == { "utf32to8", "utf16to8" }

\* C13: under Preserve_8, utf8to32 and utf8to16 map each invalid byte b to the
\* single value 0xDC00 | b and advance by one byte; utf32to8 and utf16to8 map
\* each value in [0xDC80, 0xDCFF] at the scan position to exactly its low
\* byte.  In particular FF becomes {0xDCFF} and {0xDCFF} becomes FF.
C13_Preserve8Escape ==
    [][ (errs = "Preserve_8" /\ i < Len(src)) =>
          /\ (fn \in Decoders /\ WellFormedWidth(src, i) = 0) =>
                 (i' = i + 1 /\ dst' = Append(dst, 56320 + src[i + 1]))
          /\ (fn \in Encoders /\ InRange(src[i + 1], 56448, 56575)) =>
                 (i' = i + 1 /\ dst' = Append(dst, src[i + 1] % 256))
      ]_vars

\* the conditions under which a 4-byte lead at index k of s starts a
\* sequence: three more bytes, all continuation bytes, pair not rejected
Accept4(s, k) ==
    /\ k + 3 < Len(s)
    /\ \A j \in 2..4 : InRange(s[k + j], 128, 191)
    /\ ~(s[k + 1] = 240 /\ s[k + 2] < 144)
    /\ ~(s[k + 1] = 244 /\ s[k + 2] > 143)

Packed4(s, k) ==
    (s[k + 1] % 8) * 262144 + (s[k + 2] % 64) * 4096 + (s[k + 3] % 64) * 64 + (s[k + 4] % 64)

\* the code point v as the decoder f writes it
Written(f, v) ==
    IF f = "utf8to32" THEN << v >>
    ELSE << 55296 + ((v - 65536) \div 1024), 56320 + ((v - 65536) % 1024) >>

\* C14: in utf8to32, as in utf8to16, a 4-byte lead (F0..F4) is consumed as
\* one code point, the 3/6/6/6 packing of its four bytes, with an advance of
\* four, exactly when three continuation bytes follow and the pair check
\* passes; in every other case the lead alone is one invalid byte.
C14_FourByteLead ==
    [][ (fn \in Decoders /\ i < Len(src) /\ LeadWidth(src[i + 1]) = 4) =>
          IF Accept4(src, i)
          THEN i' = i + 4 /\ dst' = dst \o Written(fn, Packed4(src, i))
          ELSE /\ i' = i + 1
               /\ Len(dst') = Len(dst) + 1
               /\ errs = "Substitute" => dst' = Append(dst, 65533)
      ]_vars

----------------------------------------------------------------------------
(* utf32to8 on 32-bit input *)

MaxValues == 2     \* longest 32-bit input of a utf32to8 run

\* 32-bit values: both ends of each encoding width, the surrogate range and
\* the Preserve_8 escape range, and values beyond the last code point
Units32 == { \h0, \h41, \h7F, \h80, \h7FF, \h800, \hD7FF, \hD800, \hDC80, \hDCFF,
             \hDFFF, \hE000, \hFFFF, \h10000, \h10001, \h10FFFF, \h110000,
             \h110001, \h7FFFFFFF }

Init32 ==
    /\ charSigned \in BOOLEAN /\ errs \in Policies
    /\ \E u \in SeqsUpTo(Units32, MaxValues) : ConvStart("utf32to8", "none", u)
    /\ AdapterIdle

Next32 == utf32to8

Spec32 == Init32 /\ [][Next32]_vars

\* the minimal-width well-formed UTF-8 encoding of the code point c, and
\* EF BF BD for a value that is no code point to encode
Minimal8(c) ==
    IF c < 128 THEN << c >>
    ELSE IF c < 2048 THEN << 192 + (c \div 64), 128 + (c % 64) >>
    ELSE IF InRange(c, 55296, 57343) THEN << 239, 191, 189 >>
    ELSE IF c < 65536
         THEN << 224 + (c \div 4096), 128 + ((c \div 64) % 64), 128 + (c % 64) >>
    ELSE IF c <= 1114111
         THEN << 240 + (c \div 262144), 128 + ((c \div 4096) % 64),
                 128 + ((c \div 64) % 64), 128 + (c % 64) >>
    ELSE << 239, 191, 189 >>

\* C15: under Substitute utf32to8 appends, for each code point of
\* [0, 0x10FFFF] that is no surrogate, its minimal-width well-formed UTF-8
\* encoding, and EF BF BD for every other 32-bit value, so its output is
\* well-formed UTF-8.
C15_MinimalEncoding ==
    [][ (fn = "utf32to8" /\ errs = "Substitute" /\ i < Len(src)) =>
          /\ dst' = dst \o Minimal8(src[i + 1])
          /\ (WellFormed8(dst) => WellFormed8(dst'))
      ]_vars

----------------------------------------------------------------------------
(* Claims on the chunked adapters, continued *)

\* the while loop of fromWide or toWide is about to run its body
InLoop == apc = "loop" /\ Len(buf) - workingPoint > safeSize

\* C16: for every per-call limit of at least 2, each iteration of the block
\* loops of fromWide and toWide hands the codec a block of at least one unit
\* and strictly increases workingPoint, and the backward walk of toWide never
\* leaves the string, so both loops terminate.
C16_LoopProgress ==
    [][ (InLoop /\ safeSize >= 2) =>
          /\ apc' # "undefined"
          /\ workingPoint' > workingPoint
          /\ workingPoint' <= Len(buf)
      ]_vars

----------------------------------------------------------------------------
(* The two 8-bit decoders side by side *)

\* utf8to32 on 8-bit input, then utf32to16 on its result
InitAgree ==
    /\ charSigned \in BOOLEAN /\ errs \in Policies
    /\ \E s \in Inputs8 : ConvStart("utf8to32", "utf32to16", s)
    /\ AdapterIdle

NextAgree == utf8to32 \/ utf32to16 \/ Return

SpecAgree == InitAgree /\ [][NextAgree]_vars

\* utf8to16, lines 144-171: the string returned for s scanned from index k
RECURSIVE utf8to16_from(_, _, _)
utf8to16_from(s, k, e) ==
    IF k >= Len(s) THEN << >>
    ELSE LET res == utf8to16_iter(s, k, e)
         IN  res.out \o utf8to16_from(s, res.next, e)

\* C17: for every byte sequence s and every policy p,
\* utf8to16(s, p) = utf32to16(utf8to32(s, p)).
C17_DecodersAgree ==
    Returned("utf8to32", "utf32to16") => dst = utf8to16_from(orig, 0, errs)

====
